---------------------------- MODULE Spec2Model ----------------------------
(***************************************************************************)
(* GCRCatalogs: the AlphaQ galaxy / cluster catalog readers (alphaq.py)    *)
(* and the registry of the DC2 DIA object reader (dc2_dia_object.py).      *)
(*                                                                         *)
(* Conventions of the model                                                *)
(*  - a version string "2.1.1" is the sequence of its dotted components    *)
(*    <<2, 1, 1>>; '.'.join(map(str, xs)) is therefore xs itself, and      *)
(*    StrictVersion(s) is the parse of such a sequence;                    *)
(*  - an HDF5 path "a/b" is a string; the file maps the sequence of the    *)
(*    path's components <<"a", "b">> to a node, JoinPath builds the string;*)
(*  - Python's None is the record None, a bytes object b"x" is Bytes("x"), *)
(*    a str "x" is Str("x"), a list is List(<<...>>), a dict returned to   *)
(*    the caller is Dict(f), a numpy array is Array(<<...>>);              *)
(*  - a recipe of the registry is either a plain string (type "str") or a  *)
(*    tuple (callable, column, ...) (type "tuple").                        *)
(***************************************************************************)
EXTENDS Integers, Sequences, FiniteSets, TLC

VARIABLES
    cls,                 \* the class of the catalog object
    file,                \* the content of the HDF5 file self._file names
    kwargs,              \* the keyword arguments given to _subclass_init
    status,              \* "new", "ok" (constructed) or "failed"
    error,               \* the exception that ended the last call, or "none"
    catalog_version,     \* the StrictVersion parsed from the file
    _quantity_modifiers, \* self._quantity_modifiers (empty until built)
    _native_filter_quantities, \* AlphaQClusterCatalog only
    walk,                \* the generator object of _iter_native_dataset
    handles,             \* number of h5py.File handles currently open
    ret                  \* what the last call returned

vars == <<cls, file, kwargs, status, error, catalog_version, _quantity_modifiers,
          _native_filter_quantities, walk, handles, ret>>

(***************************************************************************)
(* Bounds                                                                  *)
(***************************************************************************)
MaxComp == 2        \* version components range over 0 .. MaxComp
MaxHalos == 2       \* halo groups of a cluster file
MaxFilters == 2     \* predicates in a native filter
MaxBands == 2       \* characters of the bands argument (DC2 DIA object)
MaxLeaked == 1      \* abandoned generators kept alive at once

(***************************************************************************)
(* Python values                                                           *)
(***************************************************************************)
None == [none |-> TRUE]
Bytes(s) == [bytes |-> s]
Str(s) == [str |-> s]
List(l) == [list |-> l]
Array(a) == [array |-> a]
Dict(d) == [dict |-> d]
EmptyDict == [k \in {} |-> None]

\* bytes.decode(): the same characters as a str
Decode(v) == Str(v.bytes)

\* dict.update(other)
DictUpdate(d, other) ==
    [k \in (DOMAIN d) \cup (DOMAIN other) |->
        IF k \in DOMAIN other THEN other[k] ELSE d[k]]

\* del d[k]
DictDel(d, k) == [x \in (DOMAIN d) \ {k} |-> d[x]]

\* d[k] = v
DictSet(d, k, v) == [x \in (DOMAIN d) \cup {k} |-> IF x = k THEN v ELSE d[x]]

(***************************************************************************)
(* distutils.version.StrictVersion                                         *)
(***************************************************************************)
\* StrictVersion(s): "major.minor" or "major.minor.patch"; anything else is a
\* ValueError.  A missing patch is 0.
StrictVersion(s) ==
    IF Len(s) = 3 THEN [ok |-> TRUE, version |-> s]
    ELSE IF Len(s) = 2 THEN [ok |-> TRUE, version |-> <<s[1], s[2], 0>>]
    ELSE [ok |-> FALSE, version |-> <<>>]

\* tuple comparison of the (major, minor, patch) triples
VersionLtMut(a, b) ==
    \/ a[1] < b[1]
    \/ a[1] = b[1] /\ a[2] < b[2]
    \/ a[1] = b[1] /\ a[2] = b[2] /\ a[3] <= b[3]

VersionLt(a, b) ==
    \/ a[1] < b[1]
    \/ a[1] = b[1] /\ a[2] < b[2]
    \/ a[1] = b[1] /\ a[2] = b[2] /\ a[3] < b[3]

VersionEq(a, b) == a[1] = b[1] /\ a[2] = b[2] /\ a[3] = b[3]

V2_1_1 == StrictVersion(<<2, 1, 1>>).version
V2_0 == StrictVersion(<<2, 0>>).version

(***************************************************************************)
(* Recipes of the registry                                                 *)
(***************************************************************************)
Direct(col) == [type |-> "str", fn |-> "", args |-> <<col>>]
Derived(f, cols) == [type |-> "tuple", fn |-> f, args |-> cols]

\* callable(q_mod) or (isinstance(q_mod, (tuple, list)) and len(q_mod) > 1
\*                     and callable(q_mod[0]))
IsFunctionOfNative(q_mod) ==
    /\ q_mod # None
    /\ q_mod.type = "tuple"
    /\ 1 + Len(q_mod.args) > 1
    /\ q_mod.fn # ""

(***************************************************************************)
(* AlphaQGalaxyCatalog._subclass_init: the registry                        *)
(***************************************************************************)
BaseModifiers ==
    ("galaxy_id" :> Direct("galaxyID")) @@
    ("ra" :> Direct("ra")) @@
    ("dec" :> Direct("dec")) @@
    ("ra_true" :> Direct("ra_true")) @@
    ("dec_true" :> Direct("dec_true")) @@
    ("redshift" :> Direct("redshift")) @@
    ("redshift_true" :> Direct("redshiftHubble")) @@
    ("shear_1" :> Direct("shear1")) @@
    ("shear_2" :> Direct("shear2")) @@
    ("convergence" :> Direct("convergence")) @@
    ("magnification" :> Direct("magnification")) @@
    ("halo_id" :> Direct("hostIndex")) @@
    ("halo_mass" :> Direct("hostHaloMass")) @@
    ("is_central" :> Derived("astype_bool", <<"isCentral">>)) @@
    ("stellar_mass" :> Direct("totalMassStellar")) @@
    ("size_disk_true" :> Direct("morphology/diskHalfLightRadius")) @@
    ("size_bulge_true" :> Direct("morphology/spheroidHalfLightRadius")) @@
    ("disk_sersic_index" :> Direct("morphology/diskSersicIndex")) @@
    ("bulge_sersic_index" :> Direct("morphology/spheroidSersicIndex")) @@
    ("position_angle" :> Derived("pos_angle_deg", <<"morphology/positionAngle">>)) @@
    ("ellipticity_1" :> Derived("ellip2_over_tan",
        <<"morphology/totalEllipticity2", "morphology/positionAngle">>)) @@
    ("ellipticity_2" :> Direct("morphology/totalEllipticity2")) @@
    ("position_x" :> Direct("x")) @@
    ("position_y" :> Direct("y")) @@
    ("position_z" :> Direct("z")) @@
    ("velocity_x" :> Direct("vx")) @@
    ("velocity_y" :> Direct("vy")) @@
    ("velocity_z" :> Direct("vz"))

\* if catalog_version < StrictVersion('2.1.1'): ...
PatchBefore2_1_1Mut(m, v) ==
    IF VersionLtMut(v, V2_1_1)
    THEN DictDel(DictDel(
            DictUpdate(m, ("disk_sersic_index" :> Direct("diskSersicIndex")) @@
                          ("bulge_sersic_index" :> Direct("spheroidSersicIndex"))),
            "ellipticity_1"), "ellipticity_2")
    ELSE m

PatchBefore2_1_1(m, v) ==
    IF VersionLt(v, V2_1_1)
    THEN DictDel(DictDel(
            DictUpdate(m, ("disk_sersic_index" :> Direct("diskSersicIndex")) @@
                          ("bulge_sersic_index" :> Direct("spheroidSersicIndex"))),
            "ellipticity_1"), "ellipticity_2")
    ELSE m

\* if catalog_version == StrictVersion('2.0'): ...   (to be backward compatible)
PatchEq2_0Mut(m, v) ==
    IF VersionLt(v, V2_1_1)
    THEN DictUpdate(m, ("ra" :> Derived("div3600", <<"ra">>)) @@
                       ("ra_true" :> Derived("div3600", <<"ra_true">>)) @@
                       ("dec" :> Derived("div3600", <<"dec">>)) @@
                       ("dec_true" :> Derived("div3600", <<"dec_true">>)))
    ELSE m

PatchEq2_0(m, v) ==
    IF VersionEq(v, V2_0)
    THEN DictUpdate(m, ("ra" :> Derived("div3600", <<"ra">>)) @@
                       ("ra_true" :> Derived("div3600", <<"ra_true">>)) @@
                       ("dec" :> Derived("div3600", <<"dec">>)) @@
                       ("dec_true" :> Derived("div3600", <<"dec_true">>)))
    ELSE m

\* the body of "for band in 'ugriz'"
BandEntries(m, band) ==
    DictSet(DictSet(DictSet(DictSet(m,
        "mag_" \o band \o "_lsst",
            Direct("LSST_filters/magnitude:LSST_" \o band \o ":observed")),
        "mag_" \o band \o "_sdss",
            Direct("SDSS_filters/magnitude:SDSS_" \o band \o ":observed")),
        "Mag_true_" \o band \o "_lsst_z0",
            Direct("LSST_filters/magnitude:LSST_" \o band \o ":rest")),
        "Mag_true_" \o band \o "_sdss_z0",
            Direct("SDSS_filters/magnitude:SDSS_" \o band \o ":rest"))

ugriz == <<"u", "g", "r", "i", "z">>

RECURSIVE BandLoop(_, _)
BandLoop(m, bands) ==
    IF bands = <<>> THEN m
    ELSE BandLoop(BandEntries(m, Head(bands)), Tail(bands))

BandExpansion(m) ==
    DictSet(DictSet(BandLoop(m, ugriz),
        "mag_Y_lsst", Direct("LSST_filters/magnitude:LSST_y:observed")),
        "Mag_true_Y_lsst_z0", Direct("LSST_filters/magnitude:LSST_y:rest"))

\* lines 50-105: the registry of a catalog of version v
QuantityModifiers(v) ==
    BandExpansion(PatchEq2_0(PatchBefore2_1_1(BaseModifiers, v), v))


(***************************************************************************)
(* The HDF5 file                                                           *)
(*   meta : the metaData/version<label> scalars that are stored            *)
(*   tree : path (sequence of names) |-> node, for every group and dataset *)
(*   keys : the names of the root group, in iteration order                *)
(***************************************************************************)
VersionLabels == <<"Major", "Minor", "MinorMinor">>

Group(attrs) == [kind |-> "group", attrs |-> attrs, value |-> <<>>]
Dataset(attrs, value) == [kind |-> "dataset", attrs |-> attrs, value |-> value]

RECURSIVE JoinPath(_)
JoinPath(p) ==
    IF Len(p) = 0 THEN ""
    ELSE IF Len(p) = 1 THEN p[1]
    ELSE p[1] \o "/" \o JoinPath(Tail(p))

\* key in fh
Contains(fh, key) == \E p \in DOMAIN fh.tree : JoinPath(p) = key

\* fh[key]
Lookup(fh, key) == fh.tree[CHOOSE p \in DOMAIN fh.tree : JoinPath(p) = key]

GP == "galaxyProperties"

NoAttrs == EmptyDict
UnitsOnly == ("units" :> Bytes("degrees"))
NoDescription == ("units" :> Bytes("arcsec")) @@ ("description" :> Bytes("None given"))
Described == ("units" :> Bytes("None given")) @@ ("description" :> Bytes("redshift of the galaxy"))

\* the file of the scenario: galaxyProperties/{ra, dec, redshift, morphology/...}
ScenarioTree ==
    (<<GP>> :> Group(NoAttrs)) @@
    (<<GP, "ra">> :> Dataset(NoDescription, <<7200, 1800>>)) @@
    (<<GP, "dec">> :> Dataset(UnitsOnly, <<0, 3600>>)) @@
    (<<GP, "redshift">> :> Dataset(Described, <<1, 2>>)) @@
    (<<GP, "morphology">> :> Group(NoAttrs)) @@
    (<<GP, "morphology", "diskHalfLightRadius">> :> Dataset(NoAttrs, <<5>>)) @@
    (<<"metaData">> :> Group(NoAttrs))

\* a fuller file: other root groups, nested groups, an empty group
FullerTree ==
    (<<GP>> :> Group(NoAttrs)) @@
    (<<GP, "ra">> :> Dataset(UnitsOnly, <<3600>>)) @@
    (<<GP, "ra_true">> :> Dataset(NoDescription, <<5400, 1>>)) @@
    (<<GP, "isCentral">> :> Dataset(Described, <<0, 1, 1, 0>>)) @@
    (<<GP, "diskSersicIndex">> :> Dataset(NoDescription, <<1>>)) @@
    (<<GP, "morphology">> :> Group(Described)) @@
    (<<GP, "morphology", "diskSersicIndex">> :> Dataset(Described, <<4>>)) @@
    (<<GP, "morphology", "totalEllipticity2">> :> Dataset(UnitsOnly, <<2>>)) @@
    (<<GP, "LSST_filters">> :> Group(NoAttrs)) @@
    (<<GP, "LSST_filters", "magnitude:LSST_u:observed">> :> Dataset(UnitsOnly, <<20>>)) @@
    (<<GP, "emptyGroup">> :> Group(NoAttrs)) @@
    (<<"metaData">> :> Group(NoAttrs)) @@
    (<<"metaData", "catalogCreationDate">> :> Dataset(NoAttrs, <<2018>>))

Trees == {ScenarioTree, FullerTree}

Metas == UNION {[labels -> 0 .. MaxComp] : labels \in SUBSET {"Major", "Minor", "MinorMinor"}}

GalaxyFiles ==
    {[meta |-> m, tree |-> t, keys |-> <<GP, "metaData">>] : m \in Metas, t \in Trees}

(***************************************************************************)
(* AlphaQGalaxyCatalog._subclass_init                                      *)
(***************************************************************************)
\* lines 35-42: the loop over ('Major', 'Minor', 'MinorMinor'); a KeyError
\* breaks out of it, and the default [2, 0] is looked at only after an append
RECURSIVE ReadVersionLoop(_, _, _)
ReadVersionLoop(meta, labels, acc) ==
    IF labels = <<>> THEN acc
    ELSE IF Head(labels) \notin DOMAIN meta THEN acc
    ELSE LET appended == Append(acc, meta[Head(labels)])
         IN ReadVersionLoop(meta, Tail(labels),
                            IF appended = <<>> THEN <<2, 0>> ELSE appended)

\* line 43: StrictVersion('.'.join(map(str, catalog_version)))
ReadCatalogVersion(fh) == StrictVersion(ReadVersionLoop(fh.meta, VersionLabels, <<>>))

\* line 45: StrictVersion(kwargs.get('version', '0.0'))
ConfigVersion(kw) ==
    StrictVersion(IF "version" \in DOMAIN kw THEN kw["version"] ELSE <<0, 0>>)

\* line 46: config_version != catalog_version
VersionMismatchMut(config, catalog) == VersionLt(config, catalog)

VersionMismatch(config, catalog) == ~VersionEq(config, catalog)

VersionStrings == UNION {[1 .. n -> 0 .. MaxComp] : n \in 1 .. 3}

KwargsSet == {EmptyDict} \cup {("version" :> s) : s \in VersionStrings}

\* the outcome of lines 28-47: the error raised, or "none"
InitError(fh, kw) ==
    IF ~ReadCatalogVersion(fh).ok THEN "ValueError: invalid version number"
    ELSE IF ~ConfigVersion(kw).ok THEN "ValueError: invalid version number"
    ELSE IF VersionMismatch(ConfigVersion(kw).version, ReadCatalogVersion(fh).version)
         THEN "ValueError: version mismatch"
    ELSE "none"

\* AlphaQClusterCatalog line 180: set(fh[next(fh.keys())].attrs)
NativeFilterQuantities(fh) == DOMAIN fh.tree[<<fh.keys[1]>>].attrs

NoWalk == [status |-> "none", filter |-> None, pos |-> 0, yielded |-> <<>>,
           fetched |-> FALSE]

NoReturn == [call |-> [op |-> "none", quantity |-> ""], value |-> None]

SubclassInit(kw) ==
    /\ status = "new"
    /\ kwargs' = kw
    /\ error' = InitError(file, kw)
    /\ catalog_version' = ReadCatalogVersion(file)
    /\ IF error' = "none"
       THEN /\ status' = "ok"
            /\ _quantity_modifiers' = QuantityModifiers(catalog_version'.version)
            /\ _native_filter_quantities' =
                  IF cls = "AlphaQClusterCatalog"
                  THEN NativeFilterQuantities(file) ELSE {}
       ELSE /\ status' = "failed"
            /\ UNCHANGED <<_quantity_modifiers, _native_filter_quantities>>
    /\ ret' = NoReturn
    /\ UNCHANGED <<cls, file, walk, handles>>

(***************************************************************************)
(* AlphaQGalaxyCatalog._generate_native_quantity_list                      *)
(***************************************************************************)
\* the members of the group at path p
Children(fh, p) ==
    {q \in DOMAIN fh.tree : Len(q) = Len(p) + 1 /\ SubSeq(q, 1, Len(p)) = p}

\* hgroup.visit(hobjects.append): every object below the group, recursively,
\* by its name relative to the group
RECURSIVE VisitFrom(_, _, _)
VisitFrom(fh, root, p) ==
    UNION {{JoinPath(SubSeq(q, Len(root) + 1, Len(q)))} \cup
           (IF fh.tree[q].kind = "group" THEN VisitFrom(fh, root, q) ELSE {})
           : q \in Children(fh, p)}

Visit(fh, root) == VisitFrom(fh, root, root)

\* line 122: keep the objects that are h5py.Dataset
NativeQuantityListMut(fh) == Visit(fh, <<GP>>)

NativeQuantityList(fh) ==
    {hobject \in Visit(fh, <<GP>>) : Lookup(fh, GP \o "/" \o hobject).kind = "dataset"}

GenerateNativeQuantityList ==
    /\ status = "ok"
    /\ walk.status = "none"
    /\ IF Contains(file, GP)
       THEN /\ ret' = [call |-> [op |-> "native_quantities", quantity |-> ""],
                       value |-> [names |-> NativeQuantityList(file)]]
            /\ error' = "none"
       ELSE /\ ret' = [call |-> [op |-> "native_quantities", quantity |-> ""],
                       value |-> None]
            /\ error' = "KeyError"
    /\ UNCHANGED <<cls, file, kwargs, status, catalog_version, _quantity_modifiers,
                   _native_filter_quantities, walk, handles>>

(***************************************************************************)
(* AlphaQGalaxyCatalog._get_quantity_info_dict                             *)
(***************************************************************************)
\* BaseGenericCatalog.get_quantity_modifier: the registry's entry, or None
GetQuantityModifier(quantity) ==
    IF quantity \in DOMAIN _quantity_modifiers
    THEN _quantity_modifiers[quantity] ELSE None

\* line 141: None if k == 'description' and v == b'None given' else v.decode()
AttrModifier(k, v) ==
    IF k = "description" /\ v = Bytes("None given") THEN None ELSE Decode(v)

\* lines 136-142
GetNativeQuantityInfoDict(fh, quantity, default) ==
    LET quantity_key == GP \o "/" \o quantity
    IN IF ~Contains(fh, quantity_key) THEN default
       ELSE LET attrs == Lookup(fh, quantity_key).attrs
            IN Dict([k \in DOMAIN attrs |-> AttrModifier(k, attrs[k])])

\* lines 145-150; q_mod or quantity: the column of a string recipe, the
\* quantity's own name when the registry has no entry
GetQuantityInfoDictMut(fh, quantity, default) ==
    LET q_mod == GetQuantityModifier(quantity)
    IN GetNativeQuantityInfoDict(fh,
            IF q_mod = None THEN quantity ELSE q_mod.args[1], default)

GetQuantityInfoDict(fh, quantity, default) ==
    LET q_mod == GetQuantityModifier(quantity)
    IN IF IsFunctionOfNative(q_mod) THEN default
       ELSE GetNativeQuantityInfoDict(fh,
               IF q_mod = None THEN quantity ELSE q_mod.args[1], default)

\* names asked for that the registry does not hold: native names
UnregisteredNames == {"redshiftHubble", "isCentral", "no_such_quantity"}

DescribeNames == DOMAIN BaseModifiers \cup DOMAIN BandExpansion(EmptyDict) \cup UnregisteredNames

DescribeCall(quantity) == [op |-> "describe", quantity |-> quantity]

QuantityInfoDict(quantity) ==
    /\ status = "ok"
    /\ walk.status = "none"
    /\ ret' = [call |-> DescribeCall(quantity),
               value |-> GetQuantityInfoDict(file, quantity, None)]
    /\ error' = "none"
    /\ UNCHANGED <<cls, file, kwargs, status, catalog_version, _quantity_modifiers,
                   _native_filter_quantities, walk, handles>>


(***************************************************************************)
(* The cluster file: one root group per halo, each with halo-wide          *)
(* attributes, beside the metaData group that _subclass_init reads from    *)
(* the same file (so "metaData" is one of the keys "for key in fh" visits) *)
(***************************************************************************)
AttrNames == {"host_halo_mass", "halo_z"}

\* one halo for each outcome the predicates of the model can have
HaloAttrs ==
    {("host_halo_mass" :> 0) @@ ("halo_z" :> 0),
     ("host_halo_mass" :> 1) @@ ("halo_z" :> 0),
     ("host_halo_mass" :> 1) @@ ("halo_z" :> 1)}

\* the attributes of the metaData group: none, or the halo attributes too
MetaDataAttrs == {EmptyDict, [a \in AttrNames |-> 1]}

HaloKey(i) == "halo_" \o ToString(i)

ClusterTree(halos, metaAttrs) ==
    [p \in {<<HaloKey(i)>> : i \in 1 .. Len(halos)} \cup {<<"metaData">>} |->
        IF p = <<"metaData">> THEN Group(metaAttrs)
        ELSE Group(halos[CHOOSE i \in 1 .. Len(halos) : p = <<HaloKey(i)>>])]

HaloKeys(n) == [i \in 1 .. n |-> HaloKey(i)]

ClusterMeta == ("Major" :> 2) @@ ("Minor" :> 1) @@ ("MinorMinor" :> 1)

ClusterFiles ==
    {[meta |-> ClusterMeta, tree |-> ClusterTree(halos, ma), keys |-> ks] :
        <<halos, ma, ks>> \in
            {<<h, a, k>> \in (UNION {[1 .. n -> HaloAttrs] : n \in 0 .. MaxHalos})
                              \X MetaDataAttrs
                              \X {HaloKeys(n) \o <<"metaData">> : n \in 0 .. MaxHalos} :
                Len(k) = Len(h) + 1}}

(***************************************************************************)
(* Native filters: a list of (function, attribute-name, ...)               *)
(***************************************************************************)
Predicates ==
    {<<"at_least_1", "host_halo_mass">>, <<"less_than", "halo_z", "host_halo_mass">>}

\* f[0](*args) for the functions the filters of the model use
CallPredicate(f, args) ==
    IF f = "at_least_1" THEN args[1] >= 1 ELSE args[1] < args[2]

NativeFilters ==
    {None} \cup {List(l) : l \in UNION {[1 .. n -> Predicates] : n \in 0 .. MaxFilters}}

\* the truth value of native_filters: None and the empty list are false
Truthy(native_filters) == native_filters # None /\ native_filters.list # <<>>

\* f[0](*(halo.attrs[k] for k in f[1:])): "true", "false", or the KeyError of
\* an attribute the group does not have
EvalPredicate(f, attrs) ==
    IF \E i \in 2 .. Len(f) : f[i] \notin DOMAIN attrs THEN "KeyError"
    ELSE IF CallPredicate(f[1], [i \in 1 .. Len(f) - 1 |-> attrs[f[i + 1]]])
         THEN "true" ELSE "false"

\* all(... for f in native_filters): stops at the first false predicate
RECURSIVE EvalAll(_, _)
EvalAll(native_filters, attrs) ==
    IF native_filters = <<>> THEN "true"
    ELSE LET first == EvalPredicate(Head(native_filters), attrs)
         IN IF first = "true" THEN EvalAll(Tail(native_filters), attrs) ELSE first

\* line 188: "skip" (continue), "yield", or the error of a predicate
CheckHaloMut(fh, key, native_filters) == "yield"

CheckHalo(fh, key, native_filters) ==
    IF ~Truthy(native_filters) THEN "yield"
    ELSE LET all == EvalAll(native_filters.list, fh.tree[<<key>>].attrs)
         IN IF all = "true" THEN "yield" ELSE IF all = "false" THEN "skip" ELSE all

\* lines 185-194 from the key after position pos: where the loop stops next
RECURSIVE ScanHalos(_, _, _)
ScanHalos(fh, pos, native_filters) ==
    IF pos >= Len(fh.keys) THEN [outcome |-> "stop", pos |-> pos]
    ELSE LET check == CheckHalo(fh, fh.keys[pos + 1], native_filters)
         IN IF check = "skip" THEN ScanHalos(fh, pos + 1, native_filters)
            ELSE [outcome |-> check, pos |-> pos + 1]

(***************************************************************************)
(* _iter_native_dataset: a generator.  Calling it runs none of its body;   *)
(* each next() runs the body to the next yield, to its end or to an error. *)
(*   status: "none" | "created" | "suspended" (at the yield, inside the    *)
(*   with block) | "exhausted" | "error" | "abandoned" (suspended, no      *)
(*   longer referenced by the consumer) | "collected" (finalized)          *)
(*   pos: keys of the file looked at; yielded: the keys a getter was       *)
(*   yielded for; fetched: whether a getter of this walk returned data     *)
(***************************************************************************)
WalkEnded == {"none", "exhausted", "error", "abandoned", "collected"}

\* handles held by generators the consumer no longer iterates
Leaked == handles - (IF walk.status = "suspended" THEN 1 ELSE 0)

IterNativeDataset(native_filters) ==
    /\ status = "ok"
    /\ walk.status \in WalkEnded
    /\ walk' = [status |-> "created", filter |-> native_filters, pos |-> 0,
                yielded |-> <<>>, fetched |-> FALSE]
    /\ ret' = NoReturn
    /\ error' = "none"
    /\ UNCHANGED <<cls, file, kwargs, status, catalog_version, _quantity_modifiers,
                   _native_filter_quantities, handles>>

\* AlphaQGalaxyCatalog lines 127-132: the outcome of next()
FlatNextMut(w, h) ==
    IF w.status = "created"
    THEN [walk |-> [w EXCEPT !.status = "suspended", !.pos = 1, !.yielded = <<GP>>],
          handles |-> h + 1, error |-> "none"]
    ELSE [walk |-> [w EXCEPT !.status = "exhausted"],
          handles |-> h - 1, error |-> "StopIteration"]

FlatNext(w, h) ==
    IF w.status = "created"
    THEN IF Truthy(w.filter)
         THEN [walk |-> [w EXCEPT !.status = "error"],
               handles |-> h, error |-> "AssertionError"]
         ELSE [walk |-> [w EXCEPT !.status = "suspended", !.pos = 1, !.yielded = <<GP>>],
               handles |-> h + 1, error |-> "none"]
    ELSE [walk |-> [w EXCEPT !.status = "exhausted"],
          handles |-> h - 1, error |-> "StopIteration"]

\* AlphaQClusterCatalog lines 183-194: the outcome of next()
ClusterNext(fh, w, h) ==
    LET opened == IF w.status = "created" THEN h + 1 ELSE h
        scan == ScanHalos(fh, w.pos, w.filter)
    IN IF scan.outcome = "yield"
       THEN [walk |-> [w EXCEPT !.status = "suspended", !.pos = scan.pos,
                                !.yielded = Append(@, fh.keys[scan.pos])],
             handles |-> opened, error |-> "none"]
       ELSE IF scan.outcome = "stop"
       THEN [walk |-> [w EXCEPT !.status = "exhausted", !.pos = scan.pos],
             handles |-> opened - 1, error |-> "StopIteration"]
       ELSE [walk |-> [w EXCEPT !.status = "error", !.pos = scan.pos],
             handles |-> opened - 1, error |-> scan.outcome]

GeneratorNext ==
    /\ walk.status \in {"created", "suspended"}
    /\ LET next == IF cls = "AlphaQClusterCatalog"
                   THEN ClusterNext(file, walk, handles)
                   ELSE FlatNext(walk, handles)
       IN /\ walk' = next.walk
          /\ handles' = next.handles
          /\ error' = next.error
    /\ ret' = NoReturn
    /\ UNCHANGED <<cls, file, kwargs, status, catalog_version, _quantity_modifiers,
                   _native_filter_quantities>>

\* the consumer stops iterating and drops the generator, which stays
\* suspended at its yield, inside the with block
Abandon ==
    /\ walk.status = "suspended"
    /\ Leaked < MaxLeaked
    /\ walk' = [walk EXCEPT !.status = "abandoned"]
    /\ ret' = NoReturn
    /\ UNCHANGED <<cls, file, kwargs, status, error, catalog_version,
                   _quantity_modifiers, _native_filter_quantities, handles>>

\* the interpreter finalizes a dropped generator: GeneratorExit is raised at
\* its yield and the with block closes the file
Collect ==
    /\ Leaked > 0
    /\ handles' = handles - 1
    /\ walk' = [walk EXCEPT !.status = IF @ = "abandoned" THEN "collected" ELSE @]
    /\ UNCHANGED <<cls, file, kwargs, status, error, catalog_version,
                   _quantity_modifiers, _native_filter_quantities, ret>>

(***************************************************************************)
(* native_quantity_getter                                                  *)
(***************************************************************************)
\* whether the file handle the getter closes over is still open
GetterHandleOpen(w) == w.status \in {"suspended", "abandoned"}

\* AlphaQGalaxyCatalog lines 130-131
FlatGetter(fh, w, native_quantity) ==
    IF ~GetterHandleOpen(w) THEN [error |-> "ValueError: closed file", value |-> None]
    ELSE IF ~Contains(fh, GP \o "/" \o native_quantity)
         THEN [error |-> "KeyError", value |-> None]
    ELSE [error |-> "none",
          value |-> Array(Lookup(fh, GP \o "/" \o native_quantity).value)]

\* AlphaQClusterCatalog lines 191-192
ClusterGetter(fh, w, native_quantity) ==
    [error |-> "NotImplementedError", value |-> None]

Getter(fh, w, native_quantity) ==
    IF cls = "AlphaQClusterCatalog" THEN ClusterGetter(fh, w, native_quantity)
    ELSE FlatGetter(fh, w, native_quantity)

NativeNames == {"ra", "no_such_column"}

GetterCall(native_quantity) == [op |-> "getter", quantity |-> native_quantity]

NativeQuantityGetter(native_quantity) ==
    /\ walk.yielded # <<>>
    /\ walk.status \in {"suspended", "abandoned", "exhausted", "collected"}
    /\ LET got == Getter(file, walk, native_quantity)
       IN /\ error' = got.error
          /\ ret' = [call |-> GetterCall(native_quantity), value |-> got.value]
          /\ walk' = [walk EXCEPT !.fetched = @ \/ got.error = "none"]
    /\ UNCHANGED <<cls, file, kwargs, status, catalog_version, _quantity_modifiers,
                   _native_filter_quantities, handles>>


(***************************************************************************)
(* Reading a quantity through the getter of the current partition:         *)
(* the recipe's columns are fetched and its function applied to them       *)
(***************************************************************************)
RECURSIVE GCD(_, _)
GCD(a, b) == IF b = 0 THEN a ELSE GCD(b, a % b)

\* the quotient n / d of true division, as a fraction in lowest terms
Quotient(n, d) == [num |-> n \div GCD(n, d), den |-> d \div GCD(n, d)]

\* the callables of the registry, applied to the fetched arrays:
\*   line 91: lambda x: x/3600       line 64: lambda x: x.astype(np.bool)
\* (the trigonometric recipes are kept as the application they denote)
ApplyFunction(fn, arrays) ==
    IF fn = "div3600"
    THEN Array([i \in 1 .. Len(arrays[1].array) |-> Quotient(arrays[1].array[i], 3600)])
    ELSE IF fn = "astype_bool"
    THEN Array([i \in 1 .. Len(arrays[1].array) |-> arrays[1].array[i] # 0])
    ELSE [apply |-> fn, to |-> arrays]

\* the quantity's value in the current partition
ResolveQuantity(fh, w, quantity) ==
    LET q_mod == GetQuantityModifier(quantity)
        fetched == [i \in 1 .. Len(q_mod.args) |-> Getter(fh, w, q_mod.args[i])]
        failed == {i \in 1 .. Len(q_mod.args) : fetched[i].error # "none"}
    IN IF q_mod = None THEN [error |-> "KeyError: unknown quantity", value |-> None]
       ELSE IF failed # {}
       THEN [error |-> fetched[CHOOSE i \in failed : \A j \in failed : i <= j].error,
             value |-> None]
       ELSE IF q_mod.type = "str" THEN [error |-> "none", value |-> fetched[1].value]
       ELSE [error |-> "none",
             value |-> ApplyFunction(q_mod.fn, [i \in 1 .. Len(q_mod.args) |-> fetched[i].value])]

ReadNames == {"ra", "is_central", "no_such_quantity"}

ReadCall(quantity) == [op |-> "read", quantity |-> quantity]

ReadQuantity(quantity) ==
    /\ walk.status = "suspended"
    /\ LET got == ResolveQuantity(file, walk, quantity)
       IN /\ error' = got.error
          /\ ret' = [call |-> ReadCall(quantity), value |-> got.value]
          /\ walk' = [walk EXCEPT !.fetched =
                          @ \/ (quantity \in DOMAIN _quantity_modifiers /\
                                \E c \in 1 .. Len(_quantity_modifiers[quantity].args) :
                                   Getter(file, walk, _quantity_modifiers[quantity].args[c]).error = "none")]
    /\ UNCHANGED <<cls, file, kwargs, status, catalog_version, _quantity_modifiers,
                   _native_filter_quantities, handles>>

(***************************************************************************)
(* DC2DiaObjectCatalog._generate_modifiers(dm_schema_version, bands)       *)
(***************************************************************************)
DiaBaseModifiers ==
    ("diaObjectId" :> Direct("diaObjectId")) @@
    ("ra" :> Derived("np.rad2deg", <<"coord_ra">>)) @@
    ("dec" :> Derived("np.rad2deg", <<"coord_dec">>)) @@
    ("good" :> Derived("create_basic_flag_mask", <<>>)) @@
    ("clean" :> Derived("create_basic_flag_mask", <<>>))

multiband_columns_to_copy ==
    <<"psFluxMean", "psFluxMeanErr", "psFluxSigma", "psFluxChi2", "psFluxNdata">>

\* lines 87-89: for base_col in multiband_columns_to_copy
RECURSIVE CopyColumns(_, _, _)
CopyColumns(m, band, cols) ==
    IF cols = <<>> THEN m
    ELSE CopyColumns(DictSet(m, Head(cols) \o "_" \o band,
                             Direct(Head(cols) \o "_" \o band)),
                     band, Tail(cols))

\* lines 86-89: for band in bands
RECURSIVE CopyLoop(_, _)
CopyLoop(m, bands) ==
    IF bands = <<>> THEN m
    ELSE CopyLoop(CopyColumns(m, Head(bands), multiband_columns_to_copy), Tail(bands))

\* lines 93-100: the three magnitude recipes of one band; the two source
\* columns of magMeanErr are plain string literals, not f-strings
MagnitudeEntries(m, band) ==
    DictSet(DictSet(DictSet(m,
        "magMean_" \o band,
            Derived("convert_nanoJansky_to_mag", <<"psFluxMean_" \o band>>)),
        "magMeanErr_" \o band,
            Derived("convert_flux_err_to_mag_err",
                    <<"psFluxMean_{band}", "psFluxMeanErr_{band}">>)),
        "magMeanStd_" \o band,
            Derived("convert_flux_err_to_mag_err",
                    <<"psFluxMean_" \o band, "psFluxSigma_" \o band>>))

\* lines 92-100: for band in bands
RECURSIVE MagnitudeLoop(_, _)
MagnitudeLoop(m, bands) ==
    IF bands = <<>> THEN m
    ELSE MagnitudeLoop(MagnitudeEntries(m, Head(bands)), Tail(bands))

GenerateModifiers(dm_schema_version, bands) ==
    MagnitudeLoop(CopyLoop(DiaBaseModifiers, bands), bands)

BandChars == {"u", "g", "r", "i", "z", "y"}

BandStrings == UNION {[1 .. n -> BandChars] : n \in 0 .. MaxBands}

DiaKwargs ==
    {("dm_schema_version" :> v) @@ ("bands" :> b) : v \in 1 .. 3, b \in BandStrings}

DiaGenerateModifiers ==
    /\ cls = "DC2DiaObjectCatalog"
    /\ status = "new"
    /\ _quantity_modifiers' = GenerateModifiers(kwargs["dm_schema_version"], kwargs["bands"])
    /\ status' = "ok"
    /\ UNCHANGED <<cls, file, kwargs, error, catalog_version, _native_filter_quantities,
                   walk, handles, ret>>

(***************************************************************************)
(* Specifications                                                          *)
(***************************************************************************)
InitObject ==
    /\ status = "new"
    /\ error = "none"
    /\ catalog_version = StrictVersion(<<>>)
    /\ _quantity_modifiers = EmptyDict
    /\ _native_filter_quantities = {}
    /\ walk = NoWalk
    /\ handles = 0
    /\ ret = NoReturn

\* an AlphaQGalaxyCatalog on a file of any stored version
Init ==
    /\ cls = "AlphaQGalaxyCatalog"
    /\ file \in GalaxyFiles
    /\ kwargs = EmptyDict
    /\ InitObject

\* an AlphaQClusterCatalog on a cluster file of version 2.1.1
InitCluster ==
    /\ cls = "AlphaQClusterCatalog"
    /\ file \in ClusterFiles
    /\ kwargs = EmptyDict
    /\ InitObject

\* the arguments of DC2DiaObjectCatalog._generate_modifiers
InitDia ==
    /\ cls = "DC2DiaObjectCatalog"
    /\ file = [meta |-> EmptyDict, tree |-> EmptyDict, keys |-> <<>>]
    /\ kwargs \in DiaKwargs
    /\ InitObject

Next ==
    \/ \E kw \in KwargsSet : SubclassInit(kw)
    \/ GenerateNativeQuantityList
    \/ \E quantity \in DescribeNames : QuantityInfoDict(quantity)
    \/ \E native_filters \in NativeFilters : IterNativeDataset(native_filters)
    \/ GeneratorNext
    \/ Abandon
    \/ Collect
    \/ \E native_quantity \in NativeNames : NativeQuantityGetter(native_quantity)
    \/ \E quantity \in ReadNames : ReadQuantity(quantity)

NextDia == DiaGenerateModifiers

Spec == Init /\ [][Next]_vars

SpecCluster == InitCluster /\ [][Next]_vars

SpecDia == InitDia /\ [][NextDia]_vars


(***************************************************************************)
(* Properties                                                              *)
(***************************************************************************)
IsAlphaQ == cls \in {"AlphaQGalaxyCatalog", "AlphaQClusterCatalog"}

\* a version string's components, missing trailing ones read as 0
PadVersion(s) == [i \in 1 .. 3 |-> IF i <= Len(s) THEN s[i] ELSE 0]

\* the version the file's metaData stores: the leading labels that are present
StoredVersion ==
    IF "Major" \notin DOMAIN file.meta THEN <<>>
    ELSE IF "Minor" \notin DOMAIN file.meta THEN <<file.meta["Major"]>>
    ELSE IF "MinorMinor" \notin DOMAIN file.meta
         THEN <<file.meta["Major"], file.meta["Minor"]>>
    ELSE <<file.meta["Major"], file.meta["Minor"], file.meta["MinorMinor"]>>

\* the version the caller declares: the 'version' keyword, '0.0' when not given
ExpectedVersion == IF "version" \in DOMAIN kwargs THEN kwargs["version"] ELSE <<0, 0>>

VersionsDiffer == PadVersion(StoredVersion) # PadVersion(ExpectedVersion)

\* C1: constructing an AlphaQ catalog whose expected version differs from the
\* version stored in the file always fails with a ValueError, with the registry
\* not built, no walk started, no column fetched and no handle left open;
\* construction succeeds only when the two versions are equal.
C1_VersionMismatchFails ==
    (IsAlphaQ /\ status # "new") =>
        /\ VersionsDiffer => status = "failed"
        /\ status = "ok" => ~VersionsDiffer
        /\ status = "failed" =>
              /\ error \in {"ValueError: version mismatch",
                            "ValueError: invalid version number"}
              /\ _quantity_modifiers = EmptyDict
              /\ walk = NoWalk
              /\ handles = 0

\* a construction refused for the mismatch alone: both versions are well formed
C1_Witness ==
    /\ status = "failed"
    /\ error = "ValueError: version mismatch"
    /\ StoredVersion = <<2, 1, 1>>
    /\ ExpectedVersion = <<2, 0>>

\* C2: a file that stores versionMajor = 2 alone (version "2") is accepted by
\* a caller declaring the same version (as "2", "2.0" or "2.0.0"), and so is a
\* caller's "2" for a file storing 2.0: construction succeeds.
C2_MajorOnlyAccepted ==
    (IsAlphaQ /\ status # "new" /\ ~VersionsDiffer
        /\ (StoredVersion = <<2>> \/ ExpectedVersion = <<2>>))
        => status = "ok"

\* the values a/3600 as fractions: x is num/den of the stored value over 3600
IsStoredOver3600(x, stored) == x.den > 0 /\ x.num * 3600 = stored * x.den

AngleNames == {"ra", "dec", "ra_true", "dec_true"}

\* C3: the recipes of ra, dec, ra_true and dec_true are 'native value / 3600'
\* exactly when the version is 2.0, and the passthrough of the same-named
\* column for every other version; reading 'ra' returns the stored values
\* divided by 3600 for version 2.0 and the stored values themselves otherwise.
C3_AngleRecipes ==
    (cls = "AlphaQGalaxyCatalog" /\ status = "ok") =>
        LET v2_0 == PadVersion(StoredVersion) = <<2, 0, 0>>
            stored == file.tree[<<GP, "ra">>].value
        IN /\ \A q \in AngleNames :
                 /\ q \in DOMAIN _quantity_modifiers
                 /\ _quantity_modifiers[q] =
                       IF v2_0 THEN [type |-> "tuple", fn |-> "div3600", args |-> <<q>>]
                       ELSE [type |-> "str", fn |-> "", args |-> <<q>>]
           /\ (ret.call = [op |-> "read", quantity |-> "ra"] /\ error = "none") =>
                 /\ Len(ret.value.array) = Len(stored)
                 /\ \A i \in 1 .. Len(stored) :
                       IF v2_0 THEN IsStoredOver3600(ret.value.array[i], stored[i])
                       ELSE ret.value.array[i] = stored[i]

\* 'ra' read from a 2.0 catalog storing 7200 and 1800: 2 and 1/2
C3_Witness ==
    /\ cls = "AlphaQGalaxyCatalog"
    /\ PadVersion(StoredVersion) = <<2, 0, 0>>
    /\ ret.call = [op |-> "read", quantity |-> "ra"]
    /\ error = "none"
    /\ ret.value = [array |-> <<[num |-> 2, den |-> 1], [num |-> 1, den |-> 2]>>]

\* the datasets below galaxyProperties, by their path relative to that group
DatasetsBelowGP ==
    {JoinPath(Tail(p)) : p \in {q \in DOMAIN file.tree :
        Len(q) > 1 /\ q[1] = GP /\ file.tree[q].kind = "dataset"}}

\* C4 as stated: native_quantities() returns the full paths of the leaves; on
\* the scenario file, the four paths that start with "galaxyProperties/".
C4_FullPaths ==
    (ret.call.op = "native_quantities" /\ error = "none" /\ file.tree = ScenarioTree) =>
        ret.value.names =
            {"galaxyProperties/ra", "galaxyProperties/dec", "galaxyProperties/redshift",
             "galaxyProperties/morphology/diskHalfLightRadius"}

\* C4, amended: native_quantities() returns exactly the paths, relative to the
\* group galaxyProperties, of the datasets below that group, and no group; on
\* the scenario file {"ra", "dec", "redshift", "morphology/diskHalfLightRadius"}.
C4_RelativePaths ==
    (ret.call.op = "native_quantities" /\ error = "none") =>
        /\ ret.value.names = DatasetsBelowGP
        /\ file.tree = ScenarioTree =>
              ret.value.names = {"ra", "dec", "redshift", "morphology/diskHalfLightRadius"}

C4_Witness ==
    /\ ret.call.op = "native_quantities"
    /\ file.tree = ScenarioTree
    /\ ret.value = [names |-> {"ra", "dec", "redshift", "morphology/diskHalfLightRadius"}]

\* C5: describe(Q) returns None for every Q whose recipe is a function of one
\* or more columns; for a passthrough Q it returns None when the column is not
\* in the file, and otherwise the column's attributes, each decoded as stored,
\* except that a 'description' of b'None given' becomes None.
C5_Describe ==
    (ret.call.op = "describe" /\ ret.call.quantity \in DOMAIN _quantity_modifiers) =>
        LET recipe == _quantity_modifiers[ret.call.quantity]
            column == GP \o "/" \o recipe.args[1]
            paths == {p \in DOMAIN file.tree : JoinPath(p) = column}
        IN IF recipe.type = "tuple" /\ Len(recipe.args) >= 1 THEN ret.value = None
           ELSE IF paths = {} THEN ret.value = None
           ELSE \A p \in paths :
                   /\ DOMAIN ret.value.dict = DOMAIN file.tree[p].attrs
                   /\ \A k \in DOMAIN file.tree[p].attrs :
                         ret.value.dict[k] =
                            IF k = "description" /\ file.tree[p].attrs[k].bytes = "None given"
                            THEN [none |-> TRUE]
                            ELSE [str |-> file.tree[p].attrs[k].bytes]

\* a passthrough quantity whose column has no description
C5_Witness ==
    /\ ret.call = [op |-> "describe", quantity |-> "ra"]
    /\ _quantity_modifiers["ra"].type = "str"
    /\ ret.value = [dict |-> ("units" :> [str |-> "arcsec"]) @@
                             ("description" :> [none |-> TRUE])]


\* whether the attributes of root group key satisfy every predicate of the
\* filter of the walk (every group does when the filter is None or empty)
Satisfies(key) ==
    \/ walk.filter = None
    \/ \A n \in 1 .. Len(walk.filter.list) :
          LET f == walk.filter.list[n]
              attrs == file.tree[<<key>>].attrs
          IN IF f[1] = "at_least_1" THEN attrs[f[2]] >= 1
             ELSE attrs[f[2]] < attrs[f[3]]

\* whether evaluating the filter on root group key raises: the group lacks an
\* attribute that a predicate of a non-empty filter names
CannotEvaluate(key) ==
    /\ walk.filter # None
    /\ walk.filter.list # <<>>
    /\ DOMAIN file.tree[<<key>>].attrs = {}

C7_FlatFilterRejected ==
    /\ [](cls = "AlphaQGalaxyCatalog" =>
            IF walk.filter # None /\ walk.filter.list # <<>>
            THEN /\ walk.status \in {"created", "error"}
                 /\ walk.yielded = <<>>
                 /\ walk.status = "error" => error = "AssertionError"
            ELSE /\ walk.status \in {"suspended", "abandoned", "collected", "exhausted"}
                    => walk.yielded = <<GP>>
                 /\ walk.status \in {"none", "created"} => walk.yielded = <<>>
                 /\ walk.status # "error")
    /\ [][(cls = "AlphaQGalaxyCatalog" /\ walk'.filter # None /\ walk'.filter.list # <<>>)
            => handles' <= handles]_vars
    /\ [][(cls = "AlphaQGalaxyCatalog" /\ walk.status = "suspended"
            /\ walk'.status \notin {"suspended", "abandoned"})
            => (walk'.status = "exhausted" /\ walk'.yielded = <<GP>>
                /\ handles' = handles - 1)]_vars

\* a walk given a non-empty filter, after its first step
C7_Witness ==
    /\ cls = "AlphaQGalaxyCatalog"
    /\ walk.status = "error"
    /\ error = "AssertionError"
    /\ walk.filter # None
    /\ handles = 0

\* C8: once a walk has ended - by exhaustion, by an error, or by the consumer
\* stopping after some partitions - its file handle is closed, and no handle is
\* open when a later call starts.
C8_HandleClosedAfterWalk ==
    IsAlphaQ =>
        (walk.status \in {"none", "created", "exhausted", "error", "abandoned", "collected"}
            => handles = 0)

\* the version as one number, components being digits
VersionNumber == LET v == PadVersion(StoredVersion) IN 100 * v[1] + 10 * v[2] + v[3]

BandNames ==
    UNION {{"mag_" \o b \o "_lsst", "mag_" \o b \o "_sdss",
            "Mag_true_" \o b \o "_lsst_z0", "Mag_true_" \o b \o "_sdss_z0"} :
           b \in {"u", "g", "r", "i", "z"}}
    \cup {"mag_Y_lsst", "Mag_true_Y_lsst_z0"}

\* C9: the registry is determined by the version: below 2.1.1 it has no
\* ellipticity_1 and no ellipticity_2 and maps the Sersic indices to the
\* top-level columns; from 2.1.1 on it has both ellipticity entries and maps
\* the Sersic indices to the morphology/ columns; for every version it holds
\* the 22 band entries, each a passthrough.
C9_VersionGatedRegistry ==
    (cls = "AlphaQGalaxyCatalog" /\ status = "ok") =>
        LET m == _quantity_modifiers
        IN /\ IF VersionNumber < 211
              THEN /\ "ellipticity_1" \notin DOMAIN m
                   /\ "ellipticity_2" \notin DOMAIN m
                   /\ m["disk_sersic_index"].args = <<"diskSersicIndex">>
                   /\ m["bulge_sersic_index"].args = <<"spheroidSersicIndex">>
                   /\ Cardinality(DOMAIN m) = 26 + 22
              ELSE /\ {"ellipticity_1", "ellipticity_2"} \subseteq DOMAIN m
                   /\ m["ellipticity_1"].args =
                         <<"morphology/totalEllipticity2", "morphology/positionAngle">>
                   /\ m["ellipticity_1"].type = "tuple"
                   /\ m["ellipticity_2"].args = <<"morphology/totalEllipticity2">>
                   /\ m["disk_sersic_index"].args = <<"morphology/diskSersicIndex">>
                   /\ m["bulge_sersic_index"].args = <<"morphology/spheroidSersicIndex">>
                   /\ Cardinality(DOMAIN m) = 28 + 22
           /\ m["disk_sersic_index"].type = "str"
           /\ m["bulge_sersic_index"].type = "str"
           /\ Cardinality(BandNames) = 22
           /\ \A n \in BandNames : n \in DOMAIN m /\ m[n].type = "str"
           /\ m["mag_u_lsst"].args = <<"LSST_filters/magnitude:LSST_u:observed">>
           /\ m["Mag_true_z_sdss_z0"].args = <<"SDSS_filters/magnitude:SDSS_z:rest">>
           /\ m["mag_Y_lsst"].args = <<"LSST_filters/magnitude:LSST_y:observed">>

\* a catalog of version 2.1.0, the last one before 2.1.1
C9_Witness ==
    /\ cls = "AlphaQGalaxyCatalog"
    /\ status = "ok"
    /\ StoredVersion = <<2, 1, 0>>
    /\ "ellipticity_1" \notin DOMAIN _quantity_modifiers

\* C10: for every band, every source column of the band's magMean, magMeanErr
\* and magMeanStd recipes is one of the band's flux columns psFluxMean,
\* psFluxMeanErr, psFluxSigma, which the registry passes through directly.
C10_MagnitudeSourcesArePassthroughs ==
    (cls = "DC2DiaObjectCatalog" /\ status = "ok") =>
        \A i \in 1 .. Len(kwargs["bands"]) :
            LET band == kwargs["bands"][i]
                m == _quantity_modifiers
            IN \A name \in {"magMean_" \o band, "magMeanErr_" \o band, "magMeanStd_" \o band} :
                  /\ name \in DOMAIN m
                  /\ m[name].type = "tuple"
                  /\ \A c \in 1 .. Len(m[name].args) :
                        /\ m[name].args[c] \in
                              {"psFluxMean_" \o band, "psFluxMeanErr_" \o band,
                               "psFluxSigma_" \o band}
                        /\ m[name].args[c] \in DOMAIN m
                        /\ m[m[name].args[c]] =
                              [type |-> "str", fn |-> "", args |-> <<m[name].args[c]>>]

=============================================================================
